---------------------------- MODULE Spec2Model ----------------------------
(***************************************************************************)
(* Model of py_system_tools/binary_file_compare.py.                        *)
(*                                                                         *)
(* compare_folders lists two directories, intersects the names and, for    *)
(* every common name that is a regular file on both sides, calls           *)
(* compare_file_contents, which compares the two files in lockstep chunks  *)
(* of batch_size bytes and returns a dict  offset -> (chunk1, chunk2).     *)
(*                                                                         *)
(* A directory is a function from names to entries; an entry is absent, a  *)
(* directory, or a regular file with its bytes and a flag telling whether  *)
(* open(.., "rb") succeeds.  A Python dict is a sequence of <<key, value>> *)
(* pairs in insertion order.  print() appends a line to output.            *)
(***************************************************************************)
EXTENDS Integers, Sequences, FiniteSets

(* ---------------------------- bounds ----------------------------------- *)
MaxByte == 1          \* byte values are 0..MaxByte
MaxLen == 3           \* longest file content, single-pair specification
MaxBatch == 3         \* largest batch_size, single-pair specification
DirMaxLen == 1        \* longest file content, two-name specification

Byte == 0..MaxByte
Names == {"f1", "f2"}
OneName == {"f1"}

(* the __main__ block calls compare_folders(Path, Path, 1) *)
CliBatchSize == 1

VARIABLES
    folder1,        \* first directory : name -> entry
    folder2,        \* second directory : name -> entry
    batch_size,     \* parameter of compare_folders / compare_file_contents
    pc,             \* position in the program
    common_files,   \* files1.intersection(files2)
    todo,           \* names the for loop has not yet visited
    file_name,      \* loop variable of compare_folders
    differences,    \* the dict built by compare_file_contents
    byte_address,   \* local of compare_file_contents
    pos1, pos2,     \* read positions of f1 and f2
    byte1, byte2,   \* the chunks of the current step
    output,         \* lines printed so far
    calls,          \* history: invocations of compare_file_contents per name
    nreads,         \* history: read() calls made by the current invocation
    steps           \* history: non-empty steps of the current invocation

vars == <<folder1, folder2, batch_size, pc, common_files, todo, file_name,
          differences, byte_address, pos1, pos2, byte1, byte2, output,
          calls, nreads, steps>>

(* ---------------------------- file system ------------------------------ *)
Contents(n) == UNION {[1..m -> Byte] : m \in 0..n}

Absent == [kind |-> "absent", data |-> <<>>, readable |-> TRUE]
Directory == [kind |-> "dir", data |-> <<>>, readable |-> TRUE]
RegularFile(d, r) == [kind |-> "file", data |-> d, readable |-> r]

Entries(n) == {Absent, Directory}
                \cup {RegularFile(d, r) : d \in Contents(n), r \in BOOLEAN}

\* entries of a directory that holds every name of the listing
PresentEntries(n) == Entries(n) \ {Absent}

Min(a, b) == IF a <= b THEN a ELSE b

(* os.listdir: the names present, whatever their kind *)
ListDir(folder) == {n \in DOMAIN folder : folder[n].kind # "absent"}

(* os.path.isfile *)
IsFile(entry) == entry.kind = "file"

(* open(path, "rb") succeeds on a readable regular file *)
CanOpen(entry) == entry.kind = "file" /\ entry.readable

(* Path.stat().st_size *)
StatSize(entry) == Len(entry.data)

(* a size test that only notices a longer first file *)
SizesDifferFirstLonger(size1, size2) == size1 > size2

(* the test of line 29 *)
SizesDiffer(size1, size2) == size1 # size2

(* a read that returns one byte more than asked for *)
ReadOneMore(data, pos, n) == SubSeq(data, pos + 1, Min(pos + n + 1, Len(data)))

(* f.read(n) at position pos: at most n bytes, fewer at the end of file *)
Read(data, pos, n) == SubSeq(data, pos + 1, Min(pos + n, Len(data)))

(* the test of line 41: not byte1 and not byte2 *)
BothEmpty(b1, b2) == b1 = <<>> /\ b2 = <<>>

(* a chunk test that looks at the first byte only *)
ChunksDifferFirstByte(b1, b2) ==
    \/ (b1 = <<>>) # (b2 = <<>>)
    \/ b1 # <<>> /\ b2 # <<>> /\ b1[1] # b2[1]

(* a chunk test that records every chunk *)
ChunksDifferAlways(b1, b2) == TRUE

(* the test of line 45: byte1 != byte2 *)
ChunksDiffer(b1, b2) == b1 # b2

(* an address that advances by one byte per step *)
NextAddressByOne(addr, k) == addr + 1

(* line 48: byte_address += batch_size *)
NextAddress(addr, k) == addr + k

(* d[key] = value on an insertion-ordered dict *)
HasKey(d, key) == \E i \in 1..Len(d) : d[i][1] = key

(* an assignment that forgets the earlier keys *)
DictSetLast(d, key, value) == <<<<key, value>>>>

DictSet(d, key, value) ==
    IF HasKey(d, key)
    THEN [i \in 1..Len(d) |-> IF d[i][1] = key THEN <<key, value>> ELSE d[i]]
    ELSE Append(d, <<key, value>>)

Keys(d) == {d[i][1] : i \in 1..Len(d)}

(* ---------------------------- printed lines ---------------------------- *)
Line(msg, name) ==
    [msg |-> msg, name |-> name, addr |-> 0, val1 |-> <<>>, val2 |-> <<>>]

ByteLine(name, item) ==
    [msg |-> "Byte", name |-> name, addr |-> item[1],
     val1 |-> item[2][1], val2 |-> item[2][2]]

Printed(msg, name) == \E i \in 1..Len(output) : output[i] = Line(msg, name)

(* ---------------------------- initial states --------------------------- *)
InitLocals ==
    /\ pc = "listdir"
    /\ common_files = {}
    /\ todo = {}
    /\ file_name = "f1"
    /\ differences = <<>>
    /\ byte_address = 0
    /\ pos1 = 0
    /\ pos2 = 0
    /\ byte1 = <<>>
    /\ byte2 = <<>>
    /\ output = <<>>
    /\ calls = [n \in Names |-> 0]
    /\ nreads = 0
    /\ steps = 0

(* the command line entry point on two directories of up to two names *)
Init ==
    /\ folder1 \in [Names -> Entries(DirMaxLen)]
    /\ folder2 \in [Names -> Entries(DirMaxLen)]
    /\ batch_size = CliBatchSize
    /\ InitLocals

(* compare_folders on two directories that both hold the one name f1 *)
InitFile ==
    /\ folder1 \in [OneName -> PresentEntries(MaxLen)]
    /\ folder2 \in [OneName -> PresentEntries(MaxLen)]
    /\ batch_size \in 1..MaxBatch
    /\ InitLocals

(* ---------------------------- compare_folders -------------------------- *)
locals == <<differences, byte_address, pos1, pos2, byte1, byte2, nreads, steps>>
dirs == <<folder1, folder2, batch_size>>

(* lines 62-66 *)
ListFolders ==
    /\ pc = "listdir"
    /\ common_files' = ListDir(folder1) \cap ListDir(folder2)
    /\ todo' = common_files'
    /\ pc' = "for"
    /\ UNCHANGED <<dirs, file_name, locals, output, calls>>

(* line 69: the next name of the set, in the set's arbitrary order *)
ForNext ==
    /\ pc = "for"
    /\ \E n \in todo :
         /\ file_name' = n
         /\ todo' = todo \ {n}
    /\ pc' = "isfile"
    /\ UNCHANGED <<dirs, common_files, locals, output, calls>>

(* line 69: the set is exhausted, compare_folders returns *)
ForEnd ==
    /\ pc = "for"
    /\ todo = {}
    /\ pc' = "done"
    /\ UNCHANGED <<dirs, common_files, todo, file_name, locals, output, calls>>

(* lines 74-76 *)
NotAFile1 ==
    /\ pc = "isfile"
    /\ ~IsFile(folder1[file_name])
    /\ output' = Append(output, Line("NotFound1", file_name))
    /\ pc' = "for"
    /\ UNCHANGED <<dirs, common_files, todo, file_name, locals, calls>>

(* lines 77-79 *)
NotAFile2 ==
    /\ pc = "isfile"
    /\ IsFile(folder1[file_name])
    /\ ~IsFile(folder2[file_name])
    /\ output' = Append(output, Line("NotFound2", file_name))
    /\ pc' = "for"
    /\ UNCHANGED <<dirs, common_files, todo, file_name, locals, calls>>

(* lines 81-84 and 23: print, call compare_file_contents, fresh dict *)
Call ==
    /\ pc = "isfile"
    /\ IsFile(folder1[file_name])
    /\ IsFile(folder2[file_name])
    /\ output' = Append(output, Line("Comparing", file_name))
    /\ calls' = [calls EXCEPT ![file_name] = @ + 1]
    /\ differences' = <<>>
    /\ byte_address' = 0
    /\ pos1' = 0
    /\ pos2' = 0
    /\ byte1' = <<>>
    /\ byte2' = <<>>
    /\ nreads' = 0
    /\ steps' = 0
    /\ pc' = "stat"
    /\ UNCHANGED <<dirs, common_files, todo, file_name>>

(* ---------------------------- compare_file_contents -------------------- *)
size1 == StatSize(folder1[file_name])
size2 == StatSize(folder2[file_name])

(* lines 26-31: sizes differ, print and return the empty dict *)
SizeMismatch ==
    /\ pc = "stat"
    /\ SizesDiffer(size1, size2)
    /\ output' = Append(output, Line("DifferentSizes", file_name))
    /\ pc' = "report"
    /\ UNCHANGED <<dirs, common_files, todo, file_name, locals, calls>>

(* lines 26-29: sizes agree *)
SizesAgree ==
    /\ pc = "stat"
    /\ ~SizesDiffer(size1, size2)
    /\ pc' = "open"
    /\ UNCHANGED <<dirs, common_files, todo, file_name, locals, output, calls>>

(* lines 34-35 *)
OpenFiles ==
    /\ pc = "open"
    /\ CanOpen(folder1[file_name])
    /\ CanOpen(folder2[file_name])
    /\ pos1' = 0
    /\ pos2' = 0
    /\ byte_address' = 0
    /\ pc' = "read"
    /\ UNCHANGED <<dirs, common_files, todo, file_name, differences, byte1,
                   byte2, nreads, steps, output, calls>>

(* line 34: open raises; nothing in compare_file_contents, compare_folders *)
(* or the __main__ block catches it                                        *)
OpenRaises ==
    /\ pc = "open"
    /\ ~(CanOpen(folder1[file_name]) /\ CanOpen(folder2[file_name]))
    /\ pc' = "raised"
    /\ UNCHANGED <<dirs, common_files, todo, file_name, locals, output, calls>>

(* lines 37-38 *)
ReadChunks ==
    /\ pc = "read"
    /\ byte1' = Read(folder1[file_name].data, pos1, batch_size)
    /\ byte2' = Read(folder2[file_name].data, pos2, batch_size)
    /\ pos1' = pos1 + Len(byte1')
    /\ pos2' = pos2 + Len(byte2')
    /\ nreads' = nreads + 2
    /\ pc' = "test"
    /\ UNCHANGED <<dirs, common_files, todo, file_name, differences,
                   byte_address, steps, output, calls>>

(* lines 41-42 and 50: both chunks empty, leave the loop and return *)
LoopBreak ==
    /\ pc = "test"
    /\ BothEmpty(byte1, byte2)
    /\ pc' = "report"
    /\ UNCHANGED <<dirs, common_files, todo, file_name, locals, output, calls>>

(* lines 45-48 *)
CompareChunks ==
    /\ pc = "test"
    /\ ~BothEmpty(byte1, byte2)
    /\ differences' = IF ChunksDiffer(byte1, byte2)
                      THEN DictSet(differences, byte_address, <<byte1, byte2>>)
                      ELSE differences
    /\ byte_address' = NextAddress(byte_address, batch_size)
    /\ steps' = steps + 1
    /\ pc' = "read"
    /\ UNCHANGED <<dirs, common_files, todo, file_name, pos1, pos2, byte1,
                   byte2, nreads, output, calls>>

(* ---------------------------- compare_folders, report ------------------ *)
(* lines 87-94 *)
ReportDifferences ==
    /\ pc = "report"
    /\ differences # <<>>
    /\ output' = Append(output, Line("DifferencesFound", file_name))
                   \o [i \in 1..Len(differences) |->
                          ByteLine(file_name, differences[i])]
    /\ pc' = "for"
    /\ UNCHANGED <<dirs, common_files, todo, file_name, locals, calls>>

(* lines 95-96 *)
ReportIdentical ==
    /\ pc = "report"
    /\ differences = <<>>
    /\ output' = Append(output, Line("Identical", file_name))
    /\ pc' = "for"
    /\ UNCHANGED <<dirs, common_files, todo, file_name, locals, calls>>

Next ==
    \/ ListFolders
    \/ ForNext
    \/ ForEnd
    \/ NotAFile1
    \/ NotAFile2
    \/ Call
    \/ SizeMismatch
    \/ SizesAgree
    \/ OpenFiles
    \/ OpenRaises
    \/ ReadChunks
    \/ LoopBreak
    \/ CompareChunks
    \/ ReportDifferences
    \/ ReportIdentical

(* the command line entry point *)
Spec == Init /\ [][Next]_vars

(* one pair of entries, every batch size *)
SpecFile == InitFile /\ [][Next]_vars

(* the program is sequential and synchronous: it keeps running until it *)
(* returns or raises                                                     *)
FairSpecFile == InitFile /\ [][Next]_vars /\ WF_vars(Next)

TypeOK ==
    /\ pc \in {"listdir", "for", "isfile", "stat", "open", "read", "test",
               "report", "done", "raised"}
    /\ batch_size \in Nat \ {0}
    /\ todo \subseteq common_files
    /\ pc \in {"read", "test"} => pos1 \in 0..Len(folder1[file_name].data)
    /\ pc \in {"read", "test"} => pos2 \in 0..Len(folder2[file_name].data)

(* ---------------------------- properties ------------------------------- *)
A == folder1[file_name].data
B == folder2[file_name].data

\* compare_file_contents has returned differences to compare_folders
Returned == pc = "report"
EqualLength == Len(A) = Len(B)
Ceil(n, k) == (n + k - 1) \div k

\* the chunk of s that starts at offset o, written without SubSeq
Slice(s, o, k) == [i \in 1..Min(k, Len(s) - o) |-> s[o + i]]
RefKeys == {o \in 0..(Len(A) - 1) :
               o % batch_size = 0
               /\ Slice(A, o, batch_size) # Slice(B, o, batch_size)}
DifferingPositions == {p \in 0..(Len(A) - 1) : A[p + 1] # B[p + 1]}

(* C1: for equal-length A and B and every batch size, the dict returned by *)
(* compare_file_contents is empty if and only if A = B byte for byte (so   *)
(* comparing a content with itself, the empty one included, returns an     *)
(* empty dict).                                                            *)
C1_EmptyIffEqual ==
    (Returned /\ EqualLength) => ((differences = <<>>) <=> (A = B))

C1_Witness ==
    /\ Returned /\ EqualLength
    /\ batch_size >= 2 /\ Len(A) > batch_size
    /\ A # B /\ A[1] = B[1]
    /\ differences # <<>>

(* C2: for equal-length A and B, every position p with A[p] # B[p] lies in *)
(* the range o .. o + batch_size - 1 of some key o of the returned dict,   *)
(* and the two chunks recorded at o differ.                                *)
C2_EveryDifferenceCovered ==
    (Returned /\ EqualLength) =>
        \A p \in DifferingPositions :
            \E i \in 1..Len(differences) :
                /\ differences[i][1] <= p
                /\ p < differences[i][1] + batch_size
                /\ differences[i][2][1] # differences[i][2][2]

C2_Witness ==
    /\ Returned /\ EqualLength
    /\ batch_size >= 2
    /\ \E p, q \in DifferingPositions : p < batch_size /\ q >= batch_size

(* C3: when the two lengths differ, compare_file_contents prints the size  *)
(* mismatch line and returns the empty dict without a single read(); the   *)
(* open and the read loop are reached with equal lengths only.             *)
C3_SizeMismatchSkipsComparison ==
    /\ (Returned /\ ~EqualLength) =>
          /\ differences = <<>>
          /\ nreads = 0
          /\ output # <<>>
          /\ output[Len(output)] = Line("DifferentSizes", file_name)
    /\ (pc \in {"open", "read", "test"}) => EqualLength

C3_Witness ==
    /\ Returned
    /\ 0 < Len(A) /\ Len(A) < Len(B)
    /\ batch_size >= 2

(* C8: in every state the keys of differences are non-negative multiples   *)
(* of batch_size, and they stand in strictly ascending order in the dict's *)
(* insertion order (each key is greater than every key inserted before).   *)
C8_KeysAscendingMultiples ==
    /\ \A i \in 1..Len(differences) :
          /\ differences[i][1] >= 0
          /\ differences[i][1] % batch_size = 0
    /\ \A i, j \in 1..Len(differences) :
          i < j => differences[i][1] < differences[j][1]

C8_Witness ==
    /\ batch_size >= 2
    /\ Len(differences) >= 2

(* C9: for equal-length A and B the returned dict is the reference map:    *)
(* its keys are the multiples o of batch_size below len(A) whose chunks    *)
(* A[o:o+k] and B[o:o+k] differ, each key occurs once, its value is that   *)
(* pair of chunks, and with batch_size 1 the keys are the positions where  *)
(* the bytes differ.                                                       *)
C9_ReferenceMap ==
    (Returned /\ EqualLength) =>
        /\ Keys(differences) = RefKeys
        /\ Len(differences) = Cardinality(RefKeys)
        /\ \A i \in 1..Len(differences) :
              differences[i][2] = <<Slice(A, differences[i][1], batch_size),
                                    Slice(B, differences[i][1], batch_size)>>
        /\ (batch_size = 1 => Keys(differences) = DifferingPositions)

C9_Witness ==
    /\ Returned /\ EqualLength
    /\ batch_size >= 2
    /\ differences # <<>>
    /\ Len(differences) < steps

(* C10: the read loop terminates; after every pair of reads the two chunks *)
(* have the same length, at most batch_size, shorter than batch_size only  *)
(* at the end of the files, no read position passes the end of its file,   *)
(* and the first empty read is empty on both sides and comes after exactly *)
(* ceil(len(A) / batch_size) non-empty steps.                              *)
C10_StepShape ==
    pc = "test" =>
        /\ Len(byte1) = Len(byte2)
        /\ Len(byte1) <= batch_size
        /\ pos1 <= Len(A) /\ pos2 <= Len(B)
        /\ (Len(byte1) < batch_size => (pos1 = Len(A) /\ pos2 = Len(B)))
        /\ ((byte1 = <<>> \/ byte2 = <<>>) =>
               (BothEmpty(byte1, byte2) /\ steps = Ceil(Len(A), batch_size)))

C10_LoopTerminates ==
    /\ []C10_StepShape
    /\ (pc = "read") ~> (Returned /\ steps = Ceil(Len(A), batch_size))

C10_Witness ==
    /\ Returned /\ EqualLength
    /\ steps >= 2
    /\ Len(A) % batch_size # 0

(* ---------------------------- directory level -------------------------- *)
Common == ListDir(folder1) \cap ListDir(folder2)
BothRegular(n) == IsFile(folder1[n]) /\ IsFile(folder2[n])
Terminated == pc \in {"done", "raised"}
OutcomeLines == {"DifferentSizes", "Identical", "DifferencesFound"}
Outcomes(n) == {m \in OutcomeLines : Printed(m, n)}
Skipped(n) == Printed("NotFound1", n) \/ Printed("NotFound2", n)

\* the loop body for n has run to its end
Finished(n) ==
    /\ n \in common_files \ todo
    /\ (file_name # n \/ pc \in {"for", "done"})

(* C4: every common regular file gets exactly one of the outcomes size     *)
(* mismatch, identical, differences; a pair of different lengths gets size *)
(* mismatch and never identical.                                           *)
C4_OneOutcomePerFile ==
    \A n \in Names :
        BothRegular(n) =>
            /\ Cardinality(Outcomes(n)) <= 1
            /\ (Finished(n) => Cardinality(Outcomes(n)) = 1)
            /\ (StatSize(folder1[n]) # StatSize(folder2[n])
                  => ~Printed("Identical", n))

(* C5: compare_file_contents is invoked only for names in both listings;   *)
(* a name in one listing only is never compared and gets no line; once     *)
(* compare_folders has ended, every name that is a regular file in both    *)
(* directories has been compared exactly once.                             *)
C5_ExactlyTheCommonFiles ==
    /\ \A n \in Names \ Common :
          /\ calls[n] = 0
          /\ Outcomes(n) = {}
          /\ ~Skipped(n)
    /\ \A n \in Names : calls[n] <= 1
    /\ Terminated => \A n \in Common : BothRegular(n) => calls[n] = 1

(* C6: a common name that is not a regular file on both sides is never     *)
(* handed to compare_file_contents; once compare_folders has ended it has  *)
(* been reported, and every other common name has been visited.            *)
C6_NonFilesReportedAndSkipped ==
    \A n \in Common :
        ~BothRegular(n) =>
            /\ calls[n] = 0
            /\ (Terminated => (Skipped(n) /\ todo = {}))

(* C7: no failure of stat, open or read leaves compare_folders as an       *)
(* uncaught exception.                                                     *)
C7_NoFailurePropagates == pc # "raised"
=============================================================================
